---- MODULE Spec2Model ----
(***************************************************************************)
(* A model of src/app.py, the "Creme" ephemeral chat: a Streamlit script   *)
(* that every browser session re-runs from the top (main) on each widget   *)
(* event and on each 5 s auto-refresh, against one shared SQLite database  *)
(* and one process-wide st.cache_data cache.                               *)
(*                                                                         *)
(* Time is in whole seconds.  One action is one script run of one session  *)
(* (the handler of one widget event), including the st.rerun() it ends in. *)
(***************************************************************************)
EXTENDS Integers, Sequences, FiniteSets, TLC

VARIABLES
    now,          \* datetime.now(), seconds
    ticks,        \* how many times the clock has advanced (bounds the model)
    users,        \* table users: username -> row
    messages,     \* table messages: set of rows
    app_state,    \* table app_state: key -> value
    muted_users,  \* table muted_users: username -> muted_until
    cache,        \* st.cache_data entries, shared by all sessions
    session,      \* st.session_state of each browser session
    chat_input,   \* the chat input each browser last rendered, and when
    event,        \* the last widget event handled and its outcome
    written_at,   \* when each moderation row was last written (history)
    last_post_at, \* when each session last appended a message (history)
    admin_ops,    \* how many admin-panel handlers have changed a table or
                  \* the session (bounds the model)
    pending,      \* per session: the INSERT whose parameters are evaluated
    issued_ids,   \* every id an INSERT INTO messages was given (history)
    probe         \* inputs and result of one eligibility evaluation

vars == <<now, ticks, users, messages, app_state, muted_users, cache,
          session, chat_input, event, last_post_at, written_at, admin_ops,
          pending, issued_ids, probe>>

---------------------------------------------------------------------------
(* Bounds of the model *)

\* steps of the clock in a behaviour, and in one that crosses the
\* retention window and goes on
MaxTicks == 1
MaxRetentionTicks == 2
MaxMessages == 2
\* admin-panel handlers in a behaviour that change a table or the session
MaxAdminOps == 2

Sessions == {"s1", "s2"}

---------------------------------------------------------------------------
(* Constants and configuration, app.py lines 20-29 *)

SUPER_ADMIN_USERNAME == "admin"
SUPER_ADMIN_DEFAULT_PASS == "creme_admin_123"
APP_SALT == "default_salt_string_for_testing"

\* two of the eight entries of AVATARS
AVATARS == [Latte |-> "coffee", Moon |-> "moon"]
AvatarLabels == DOMAIN AVATARS
ADMIN_AVATAR == "crown"

\* '2000-01-01 00:00:00' relative to the model's time origin
Y2K == 0 - 800000000

CACHE_TTL == 5
USERS_CACHE_TTL == 10
RETENTION_SECONDS == 3600
LIFT_MUTE_BACKDATE == 60

\* duration_map (line 380) and d_map (line 435), in minutes
duration_map == [m5 |-> 5, m15 |-> 15, h1 |-> 60, h8 |-> 480]
d_map == [m5 |-> 5, h1 |-> 60, h24 |-> 1440]

\* a session_state key that is not set; True and False are "True", "False"
Absent == "<absent>"
GUEST_SUFFIX == " (Guest)"

---------------------------------------------------------------------------
(* Inputs typed into the forms *)

Passwords == {"pw1", "secret2"}
LoginPasswords == Passwords \cup {SUPER_ADMIN_DEFAULT_PASS}
RegisterNames == {"bob", "Bob"}
LoginNames == RegisterNames \cup {SUPER_ADMIN_USERNAME}
GuestNames == {"bob", "sam"}
\* a text field left empty
Empty == ""
Bodies == {"hello", "bye"}

---------------------------------------------------------------------------
(* Security and utility functions, app.py lines 172-190 *)

\* sha256 of password + salt: distinct inputs give distinct digests
hash_password(password) == <<"sha256", password \o APP_SALT>>

verify_password(stored_hash, provided_password) ==
    stored_hash = hash_password(provided_password)

\* a cutoff at the present instant
cutoff_time_now(t) == t

\* cutoff_time of clear_old_messages
cutoff_time(t) == t - RETENTION_SECONDS

\* a sweep that also deletes the message exactly one hour old
clear_old_messages_inclusive(msgs, t) ==
    {m \in msgs : ~(m.timestamp <= cutoff_time(t))}

\* a sweep that deletes nothing
clear_old_messages_never(msgs, t) == msgs

\* a sweep that deletes one expired row in a call, the oldest by id
clear_old_messages_one_row(msgs, t) ==
    {m \in msgs : \/ ~(m.timestamp < cutoff_time(t))
                  \/ \E x \in msgs : /\ x.timestamp < cutoff_time(t)
                                     /\ x.id < m.id}

\* DELETE FROM messages WHERE timestamp < :cutoff
clear_old_messages(msgs, t) == {m \in msgs : ~(m.timestamp < cutoff_time(t))}

\* TextBlob polarity of the two bodies of the model, in tenths
analyze_sentiment(text_message) == IF text_message = "hello" THEN 0 ELSE 0 - 1

---------------------------------------------------------------------------
(* st.cache_data: an entry is served while younger than its ttl, else the  *)
(* function body runs again and its result replaces the entry.             *)

NoEntry == [has |-> FALSE, at |-> 0, val |-> <<>>]

\* a cache whose entries never expire
cached_forever(entry, ttl, t, fetch) ==
    IF entry.has THEN entry ELSE [has |-> TRUE, at |-> t, val |-> fetch]

cached(entry, ttl, t, fetch) ==
    IF entry.has /\ t - entry.at < ttl
    THEN entry
    ELSE [has |-> TRUE, at |-> t, val |-> fetch]

---------------------------------------------------------------------------
(* Cached data fetching functions, app.py lines 192-214.  Each takes the   *)
(* cache and the tables it would query and returns the cache after the     *)
(* call; the value the caller gets is the entry's val.                     *)

\* username LIKE '%(Guest)'
like_guest(u) == Len(u) >= 7 /\ SubSeq(u, Len(u) - 6, Len(u)) = "(Guest)"

get_app_state(c, as, t) ==
    [c EXCEPT !.app_state = cached(@, CACHE_TTL, t, as)]

\* ORDER BY timestamp ASC (line 199): the rows as the chat shows them; rows
\* of one second are in the order of their insertion
RECURSIVE order_by_timestamp(_)
order_by_timestamp(msgs) ==
    IF msgs = {} THEN << >>
    ELSE LET first == CHOOSE m \in msgs :
                          \A x \in msgs :
                              \/ m.timestamp < x.timestamp
                              \/ m.timestamp = x.timestamp /\ m.id <= x.id
         IN  <<first>> \o order_by_timestamp(msgs \ {first})

get_all_messages(c, msgs, t) ==
    [c EXCEPT !.messages = cached(@, CACHE_TTL, t, msgs)]

\* a list that leaves no account out
users_for_admin_rows_with_admin(us, msgs, t) ==
    [u \in DOMAIN us |-> [role |-> us[u].role, status |-> us[u].status]]

\* registered users other than the super admin, then the guests seen in the
\* last hour's messages; drop_duplicates keeps the registered row.  The
\* avatar column is only displayed and is left out.
users_for_admin_rows(us, msgs, t) ==
    LET registered == DOMAIN us \ {SUPER_ADMIN_USERNAME}
        guests == {m.username : m \in {x \in msgs : like_guest(x.username)
                                          /\ x.timestamp > t - RETENTION_SECONDS}}
    IN  [u \in registered \cup guests |->
            IF u \in registered
            THEN [role |-> us[u].role, status |-> us[u].status]
            ELSE [role |-> "guest", status |-> "active"]]

get_all_users_for_admin(c, us, msgs, t) ==
    [c EXCEPT !.users_for_admin =
        cached(@, USERS_CACHE_TTL, t, users_for_admin_rows(us, msgs, t))]

get_muted_users_list(c, mu, t) ==
    [c EXCEPT !.muted_list =
        cached(@, CACHE_TTL, t, {u \in DOMAIN mu : mu[u] > t})]

\* the rows of muted_users for one username: none or one
get_user_mute_status(c, mu, username, t) ==
    [c EXCEPT !.mute_status[username] =
        cached(@, CACHE_TTL, t,
               IF username \in DOMAIN mu THEN {mu[username]} ELSE {})]

---------------------------------------------------------------------------
(* Posting eligibility, show_chat_screen lines 503-510 *)

\* line 505; the chat_mute_until row exists from init_db on
is_globally_muted(app_state_df, t) == app_state_df.chat_mute_until > t

\* a mute that binds whenever a row is stored, expired or not
is_individually_muted_any_row(user_mute_status, t) == user_mute_status # {}

\* line 508
is_individually_muted(user_mute_status, t) ==
    user_mute_status # {} /\ \E until \in user_mute_status : until > t

\* a rule that lets the admin role override both mutes
chat_disabled_admin_exempt(globally_muted, role, individually_muted) ==
    (globally_muted \/ individually_muted) /\ role # "admin"

\* line 510
chat_disabled(globally_muted, role, individually_muted) ==
    (globally_muted /\ role # "admin") \/ individually_muted

---------------------------------------------------------------------------
(* One complete run of show_chat_screen that handles no widget event, for  *)
(* the session state ss at time t: the sweep, the cached reads in script   *)
(* order, and the chat input it renders.                                   *)

\* the cached reads of show_admin_dashboard (lines 369, 415, 416)
dashboard_reads(c, us, msgs, as, mu, t) ==
    get_muted_users_list(
        get_all_users_for_admin(get_app_state(c, as, t), us, msgs, t), mu, t)

show_chat_screen(ss, msgs, c, us, as, mu, t) ==
    LET swept == clear_old_messages(msgs, t)
        c1 == IF ss.role = "admin"
              THEN dashboard_reads(c, us, swept, as, mu, t) ELSE c
        c2 == get_all_messages(c1, swept, t)
        c3 == get_app_state(c2, as, t)
        c4 == get_user_mute_status(c3, mu, ss.username, t)
        g  == is_globally_muted(c4.app_state.val, t)
        i  == is_individually_muted(c4.mute_status[ss.username].val, t)
    IN  [messages |-> swept, cache |-> c4,
         chat_disabled |-> chat_disabled(g, ss.role, i)]

\* what a browser shows after a run of the chat screen at time t
Rendered(disabled, t) ==
    [state |-> IF disabled THEN "disabled" ELSE "enabled", at |-> t]

\* a browser that is not on the chat screen
NotRendered == [state |-> "none", at |-> 0]

---------------------------------------------------------------------------
(* State after construction: init_db (lines 154-169) has run and every     *)
(* browser has loaded the welcome page once (main, lines 532-546).         *)

SessionNames == LoginNames \cup {g \o GUEST_SUFFIX : g \in GuestNames}

\* a session that keeps its role through a logout
SessionKeepingRole ==
    [screen |-> "welcome", logged_in |-> Absent, username |-> Absent,
     avatar |-> Absent, role |-> "admin",
     admin_using_default_pass |-> Absent,
     confirm_delete_all_messages |-> Absent]

\* st.session_state with no key but screen, as main leaves a new session
NewSession ==
    [screen |-> "welcome", logged_in |-> Absent, username |-> Absent,
     avatar |-> Absent, role |-> Absent,
     admin_using_default_pass |-> Absent,
     confirm_delete_all_messages |-> Absent]

init_db ==
    [users |-> [u \in {SUPER_ADMIN_USERNAME} |->
                  [hashed_password |-> hash_password(SUPER_ADMIN_DEFAULT_PASS),
                   avatar |-> ADMIN_AVATAR, role |-> "admin",
                   status |-> "active"]],
     messages |-> {},
     app_state |-> [chat_mute_until |-> Y2K, guest_login_disabled |-> "false"],
     muted_users |-> << >>]

EmptyCache ==
    [app_state |-> NoEntry, messages |-> NoEntry, users_for_admin |-> NoEntry,
     muted_list |-> NoEntry, mute_status |-> [u \in SessionNames |-> NoEntry]]

\* a widget event: its handler, session, the name and the other text typed
\* in, what the handler answered, the current password where the form
\* asks for one, and what the handler found stored where a claim asks
Ev(op, s, name, arg, result) ==
    [op |-> op, s |-> s, name |-> name, arg |-> arg, result |-> result,
     current |-> Absent, found |-> Absent]

NoProbe ==
    [role |-> Absent, chat_mute_until |-> 0, muted_until |-> {}, at |-> 0,
     evaluated |-> FALSE, is_globally_muted |-> FALSE,
     is_individually_muted |-> FALSE, chat_disabled |-> FALSE]

InitTables ==
    /\ now = 0
    /\ ticks = 0
    /\ users = init_db.users
    /\ messages = init_db.messages
    /\ app_state = init_db.app_state
    /\ muted_users = init_db.muted_users
    /\ cache = get_app_state(EmptyCache, init_db.app_state, 0)
    /\ session = [s \in Sessions |-> NewSession]
    /\ chat_input = [s \in Sessions |-> NotRendered]
    /\ event = Ev("init", Absent, Absent, Absent, "ok")
    /\ last_post_at = [s \in Sessions |-> {}]
    /\ written_at = [chat_mute_until |-> Y2K, muted_users |-> << >>]
    /\ admin_ops = 0
    /\ pending = [s \in Sessions |-> {}]
    /\ issued_ids = {}

Init ==
    /\ InitTables
    /\ probe = NoProbe

---------------------------------------------------------------------------
(* The clock *)

Advance(d, bound) ==
    /\ ticks < bound
    /\ now' = now + d
    /\ ticks' = ticks + 1
    /\ event' = Ev("tick", Absent, Absent, Absent, "ok")
    /\ UNCHANGED <<users, messages, app_state, muted_users, cache, session,
                   chat_input, last_post_at, written_at, probe, admin_ops,
                   pending, issued_ids>>

Tick(d) == Advance(d, MaxTicks)

---------------------------------------------------------------------------
(* show_welcome_screen, lines 218-246, and the Back buttons *)

\* line 239; the guest_login_disabled row exists from init_db on
guest_disabled(app_state_df) == app_state_df.guest_login_disabled = "true"

GoLogin(s) ==
    /\ session[s].screen = "welcome"
    /\ session' = [session EXCEPT ![s].screen = "login"]
    /\ event' = Ev("go_login", s, Absent, Absent, "ok")
    /\ UNCHANGED <<now, ticks, users, messages, app_state, muted_users, cache,
                   chat_input, last_post_at, written_at, probe, admin_ops,
                   pending, issued_ids>>

GoRegister(s) ==
    /\ session[s].screen = "welcome"
    /\ session' = [session EXCEPT ![s].screen = "register"]
    /\ event' = Ev("go_register", s, Absent, Absent, "ok")
    /\ UNCHANGED <<now, ticks, users, messages, app_state, muted_users, cache,
                   chat_input, last_post_at, written_at, probe, admin_ops,
                   pending, issued_ids>>

\* the button exists only in a run that reads guest login as enabled
GoGuestSetup(s) ==
    LET c1 == get_app_state(cache, app_state, now)
    IN  /\ session[s].screen = "welcome"
        /\ ~guest_disabled(c1.app_state.val)
        /\ cache' = c1
        /\ session' = [session EXCEPT ![s].screen = "guest_setup"]
        /\ event' = Ev("go_guest_setup", s, Absent, Absent, "ok")
        /\ UNCHANGED <<now, ticks, users, messages, app_state, muted_users,
                       chat_input, last_post_at, written_at, probe,
                       admin_ops, pending, issued_ids>>

\* "Back to Welcome" of the login, register and guest-setup screens; the
\* rerun renders the welcome screen, which reads the app state
BackToWelcome(s) ==
    /\ session[s].screen \in {"login", "register", "guest_setup"}
    /\ session' = [session EXCEPT ![s].screen = "welcome"]
    /\ cache' = get_app_state(cache, app_state, now)
    /\ event' = Ev("back", s, Absent, Absent, "ok")
    /\ UNCHANGED <<now, ticks, users, messages, app_state, muted_users,
                   chat_input, last_post_at, written_at, probe, admin_ops,
                   pending, issued_ids>>

---------------------------------------------------------------------------
(* show_login_screen, lines 248-278: submit of the login form.  The users  *)
(* row is read straight from the table (line 256).  A successful login     *)
(* ends in st.rerun(), which renders the chat screen.                      *)

\* line 257: the row exists and the password verifies
credentials_ok(us, username, password) ==
    /\ username \in DOMAIN us
    /\ verify_password(us[username].hashed_password, password)

\* a login that ignores the status column
is_banned_never(user) == FALSE

\* line 258
is_banned(user) == user.status = "banned"

\* lines 261-269
logged_in_session(ss, user, username) ==
    [ss EXCEPT !.logged_in = "True", !.username = username,
               !.avatar = user.avatar, !.role = user.role,
               !.screen = "chat",
               !.admin_using_default_pass =
                   IF user.role = "admin" /\ user.hashed_password =
                          hash_password(SUPER_ADMIN_DEFAULT_PASS)
                   THEN "True" ELSE @]

Login(s, username, password) ==
    /\ session[s].screen = "login"
    /\ IF credentials_ok(users, username, password)
       THEN IF is_banned(users[username])
            THEN /\ event' = Ev("login", s, username, password, "Banned")
                 /\ UNCHANGED <<session, messages, cache, chat_input>>
            ELSE LET ss == logged_in_session(session[s], users[username],
                                             username)
                     r  == show_chat_screen(ss, messages, cache, users,
                                            app_state, muted_users, now)
                 IN  /\ session' = [session EXCEPT ![s] = ss]
                     /\ messages' = r.messages
                     /\ cache' = r.cache
                     /\ chat_input' = [chat_input EXCEPT
                                          ![s] = Rendered(r.chat_disabled, now)]
                     /\ event' = Ev("login", s, username, password, "ok")
       ELSE /\ event' = Ev("login", s, username, password,
                           "InvalidCredentials")
            /\ UNCHANGED <<session, messages, cache, chat_input>>
    /\ UNCHANGED <<now, ticks, users, app_state, muted_users, last_post_at,
                   written_at, probe, admin_ops, pending, issued_ids>>

---------------------------------------------------------------------------
(* show_register_screen, lines 280-306: submit of the register form.       *)
(* username is the PRIMARY KEY of users (line 157), so the INSERT of line  *)
(* 294 fails on an existing username.                                      *)

\* line 288
missing_fields(username, password) == username = Empty \/ password = Empty

\* the row that line 294 inserts; role and status take the column defaults
new_user_row(password, avatar_label) ==
    [hashed_password |-> hash_password(password),
     avatar |-> AVATARS[avatar_label], role |-> "user", status |-> "active"]

\* an INSERT that never fails on the key
unique_violation_never(us, username) == FALSE

\* UNIQUE constraint of the primary key
unique_violation(us, username) == username \in DOMAIN us

insert_user(us, username, row) ==
    [u \in DOMAIN us \cup {username} |-> IF u = username THEN row ELSE us[u]]

Register(s, username, password, avatar_label) ==
    /\ session[s].screen = "register"
    /\ IF missing_fields(username, password)
       THEN /\ event' = Ev("register", s, username, password,
                           "MissingFields")
            /\ UNCHANGED <<users, session>>
       ELSE IF unique_violation(users, username)
       THEN /\ event' = Ev("register", s, username, password,
                           "DuplicateUsername")
            /\ UNCHANGED <<users, session>>
       ELSE /\ users' = insert_user(users, username,
                                    new_user_row(password, avatar_label))
            /\ session' = [session EXCEPT ![s].screen = "login"]
            /\ event' = Ev("register", s, username, password, "ok")
    /\ UNCHANGED <<now, ticks, messages, app_state, muted_users, cache,
                   chat_input, last_post_at, written_at, probe, admin_ops,
                   pending, issued_ids>>

---------------------------------------------------------------------------
(* show_guest_setup_screen, lines 308-330: submit of the guest form.       *)
(* Line 318 queries users with ttl=0, uncached.                            *)

\* a lookup that finds no row
user_exists_never(us, username) == FALSE

\* line 318-319
user_exists(us, username) == username \in DOMAIN us

\* lines 322-326
guest_session(ss, username, avatar_label) ==
    [ss EXCEPT !.logged_in = "True", !.username = username \o GUEST_SUFFIX,
               !.avatar = AVATARS[avatar_label], !.role = "guest",
               !.screen = "chat"]

GuestJoin(s, username, avatar_label) ==
    /\ session[s].screen = "guest_setup"
    /\ IF username = Empty
       THEN /\ event' = Ev("guest_join", s, username, Absent, "MissingName")
            /\ UNCHANGED <<session, messages, cache, chat_input>>
       ELSE IF user_exists(users, username)
       THEN /\ event' = Ev("guest_join", s, username, Absent,
                           "DuplicateUsername")
            /\ UNCHANGED <<session, messages, cache, chat_input>>
       ELSE LET ss == guest_session(session[s], username, avatar_label)
                r  == show_chat_screen(ss, messages, cache, users, app_state,
                                       muted_users, now)
            IN  /\ session' = [session EXCEPT ![s] = ss]
                /\ messages' = r.messages
                /\ cache' = r.cache
                /\ chat_input' = [chat_input EXCEPT
                                     ![s] = Rendered(r.chat_disabled, now)]
                /\ event' = Ev("guest_join", s, username, Absent, "ok")
    /\ UNCHANGED <<now, ticks, users, app_state, muted_users, last_post_at,
                   written_at, probe, admin_ops, pending, issued_ids>>

---------------------------------------------------------------------------
(* show_chat_screen, lines 456-525 *)

\* the auto-refresh of line 458, or any rerun that carries no widget event
Poll(s) ==
    LET r == show_chat_screen(session[s], messages, cache, users, app_state,
                              muted_users, now)
    IN  /\ session[s].screen = "chat"
        /\ pending[s] = {}
        /\ messages' = r.messages
        /\ cache' = r.cache
        /\ chat_input' = [chat_input EXCEPT ![s] = Rendered(r.chat_disabled, now)]
        /\ event' = Ev("poll", s, session[s].username, Absent, "ok")
        /\ UNCHANGED <<now, ticks, users, app_state, muted_users, session,
                       last_post_at, written_at, probe, admin_ops,
                       pending, issued_ids>>

\* id INTEGER PRIMARY KEY (line 158): the rowid, one more than the largest
\* rowid in the table
next_id(msgs) ==
    IF msgs = {} THEN 1
    ELSE (CHOOSE i \in {m.id : m \in msgs} :
              \A j \in {m.id : m \in msgs} : j <= i) + 1

\* a row with the avatar parameter bound to the username
new_message_wrong_avatar(msgs, ss, prompt, t) ==
    [id |-> next_id(msgs), username |-> ss.username, avatar |-> ss.username,
     message |-> prompt, timestamp |-> t,
     sentiment |-> analyze_sentiment(prompt)]

\* the row that lines 520-523 insert
new_message(msgs, ss, prompt, t) ==
    [id |-> next_id(msgs), username |-> ss.username, avatar |-> ss.avatar,
     message |-> prompt, timestamp |-> t,
     sentiment |-> analyze_sentiment(prompt)]

\* The user types prompt into the chat input and presses enter.  A browser
\* submits nothing from an input that its last run rendered disabled (line
\* 518).  From an enabled input, the run that carries the prompt sweeps and
\* renders as usual, inserts the row (lines 519-524) and reruns (line 525).
PostAttempt(s, prompt) ==
    /\ session[s].screen = "chat"
    /\ pending[s] = {}
    /\ Cardinality(messages) < MaxMessages
    /\ IF chat_input[s].state = "disabled"
       THEN /\ event' = Ev("post", s, session[s].username, prompt, "rejected")
            /\ UNCHANGED <<messages, cache, chat_input, last_post_at,
                           issued_ids>>
       ELSE LET r1 == show_chat_screen(session[s], messages, cache, users,
                                       app_state, muted_users, now)
                row == new_message(r1.messages, session[s], prompt, now)
                r2 == show_chat_screen(session[s], r1.messages \cup {row},
                                       r1.cache, users, app_state,
                                       muted_users, now)
            IN  /\ messages' = r2.messages
                /\ cache' = r2.cache
                /\ chat_input' = [chat_input EXCEPT
                                     ![s] = Rendered(r2.chat_disabled, now)]
                /\ last_post_at' = [last_post_at EXCEPT ![s] = {now}]
                /\ issued_ids' = issued_ids \cup {row.id}
                /\ event' = Ev("post", s, session[s].username, prompt,
                               "appended")
    /\ UNCHANGED <<now, ticks, users, app_state, muted_users, session,
                   written_at, probe, admin_ops, pending>>

\* The same run in two steps, for sessions that post at the same time: each
\* session's script runs in a thread of its own.  The first step is the run
\* up to line 523, where datetime.now() is evaluated for the ts parameter;
\* the second is the INSERT, which assigns the id, the commit and the rerun.
posts_in_flight == Cardinality({s \in Sessions : pending[s] # {}})

PostBegin(s, prompt) ==
    LET r1 == show_chat_screen(session[s], messages, cache, users,
                               app_state, muted_users, now)
    IN  /\ session[s].screen = "chat"
        /\ pending[s] = {}
        /\ chat_input[s].state # "disabled"
        /\ Cardinality(messages) + posts_in_flight < MaxMessages
        /\ messages' = r1.messages
        /\ cache' = r1.cache
        /\ chat_input' = [chat_input EXCEPT
                             ![s] = Rendered(r1.chat_disabled, now)]
        /\ pending' = [pending EXCEPT ![s] = {[prompt |-> prompt, ts |-> now]}]
        /\ event' = Ev("post_begin", s, session[s].username, prompt, "ok")
        /\ UNCHANGED <<now, ticks, users, app_state, muted_users, session,
                       written_at, probe, admin_ops, last_post_at,
                       issued_ids>>

\* The run of a submitted prompt in which TextBlob raises at line 519:
\* analyze_sentiment has no handler and neither has its caller, so the run
\* ends there, before the INSERT of line 521 and the rerun of line 525.
PostAnalyzerFails(s, prompt) ==
    LET r1 == show_chat_screen(session[s], messages, cache, users,
                               app_state, muted_users, now)
    IN  /\ session[s].screen = "chat"
        /\ pending[s] = {}
        /\ chat_input[s].state # "disabled"
        /\ messages' = r1.messages
        /\ cache' = r1.cache
        /\ chat_input' = [chat_input EXCEPT
                             ![s] = Rendered(r1.chat_disabled, now)]
        /\ event' = Ev("post", s, session[s].username, prompt,
                       "analyzer_error")
        /\ UNCHANGED <<now, ticks, users, app_state, muted_users, session,
                       written_at, probe, admin_ops, last_post_at,
                       issued_ids, pending>>

PostCommit(s) ==
    /\ pending[s] # {}
    /\ LET p == CHOOSE x \in pending[s] : TRUE
           row == new_message(messages, session[s], p.prompt, p.ts)
           r2 == show_chat_screen(session[s], messages \cup {row}, cache,
                                  users, app_state, muted_users, now)
       IN  /\ messages' = r2.messages
           /\ cache' = r2.cache
           /\ chat_input' = [chat_input EXCEPT
                                ![s] = Rendered(r2.chat_disabled, now)]
           /\ last_post_at' = [last_post_at EXCEPT ![s] = {p.ts}]
           /\ issued_ids' = issued_ids \cup {row.id}
           /\ pending' = [pending EXCEPT ![s] = {}]
           /\ event' = Ev("post", s, session[s].username, p.prompt,
                          "appended")
    /\ UNCHANGED <<now, ticks, users, app_state, muted_users, session,
                   written_at, probe, admin_ops>>

\* "Log Out", lines 466-468: the sweep of line 457 has run; every key is
\* deleted and the rerun puts the session on the welcome screen
Logout(s) ==
    /\ session[s].screen = "chat"
    /\ messages' = clear_old_messages(messages, now)
    /\ session' = [session EXCEPT ![s] = NewSession]
    /\ chat_input' = [chat_input EXCEPT ![s] = NotRendered]
    /\ cache' = get_app_state(cache, app_state, now)
    /\ last_post_at' = [last_post_at EXCEPT ![s] = {}]
    /\ event' = Ev("logout", s, session[s].username, Absent, "ok")
    /\ UNCHANGED <<now, ticks, users, app_state, muted_users, written_at,
                   probe, admin_ops, pending, issued_ids>>

---------------------------------------------------------------------------
(* show_admin_dashboard, lines 367-454.  show_chat_screen calls it only    *)
(* for a session whose role is admin (line 470), after the sweep of line   *)
(* 457.  A button or form exists only in a run whose branch reaches it;    *)
(* its handler writes the table and ends in st.rerun(), which renders the  *)
(* chat screen anew.                                                       *)

\* a sidebar that shows the panel to every role
shows_admin_panel_any_role(ss) == ss.screen = "chat"

\* line 470
shows_admin_panel(ss) == ss.screen = "chat" /\ ss.role = "admin"

\* the writes of a handler, then the rerun of the chat screen; a handler
\* that rewrites what is stored already does not count as an operation
Commit(s, ss, us, msgs, as, mu, c, ev) ==
    LET r == show_chat_screen(ss, msgs, c, us, as, mu, now)
        writes == <<us, msgs, as, mu, ss>> #
                      <<users, clear_old_messages(messages, now), app_state,
                        muted_users, session[s]>>
    IN  /\ pending[s] = {}
        /\ writes => admin_ops < MaxAdminOps
        /\ admin_ops' = IF writes THEN admin_ops + 1 ELSE admin_ops
        /\ users' = us
        /\ messages' = r.messages
        /\ app_state' = as
        /\ muted_users' = mu
        /\ session' = [session EXCEPT ![s] = ss]
        /\ cache' = r.cache
        /\ chat_input' = [chat_input EXCEPT ![s] = Rendered(r.chat_disabled, now)]
        /\ event' = ev
        /\ written_at' =
              [chat_mute_until |->
                   IF as.chat_mute_until # app_state.chat_mute_until
                   THEN now ELSE written_at.chat_mute_until,
               muted_users |->
                   [u \in DOMAIN mu |->
                       IF u \notin DOMAIN muted_users \/ mu[u] # muted_users[u]
                       THEN now ELSE written_at.muted_users[u]]]
        /\ UNCHANGED <<now, ticks, last_post_at, probe, pending, issued_ids>>

\* lines 369-373: the branch of the global mute controls
dashboard_sees_mute(c, t) == c.app_state.val.chat_mute_until > t

\* a lift that writes the present instant
lifted_until_now(t) == t

\* the value that line 376 writes
lifted_until(t) == t - LIFT_MUTE_BACKDATE

\* "Lift Mute", lines 375-377
LiftMute(s) ==
    LET swept == clear_old_messages(messages, now)
        c1 == get_app_state(cache, app_state, now)
    IN  /\ shows_admin_panel(session[s])
        /\ dashboard_sees_mute(c1, now)
        /\ Commit(s, session[s], users, swept,
                  [app_state EXCEPT !.chat_mute_until = lifted_until(now)],
                  muted_users, c1,
                  [Ev("unmute_chat", s, Absent, Absent, "ok")
                      EXCEPT !.found = IF is_globally_muted(app_state, now)
                                       THEN "muted" ELSE "unmuted"])

\* "Mute Entire Chat", lines 379-386
MuteChat(s, duration) ==
    LET swept == clear_old_messages(messages, now)
        c1 == get_app_state(cache, app_state, now)
        mute_end_time == now + 60 * duration_map[duration]
    IN  /\ shows_admin_panel(session[s])
        /\ ~dashboard_sees_mute(c1, now)
        /\ Commit(s, session[s], users, swept,
                  [app_state EXCEPT !.chat_mute_until = mute_end_time],
                  muted_users, c1,
                  Ev("mute_chat", s, Absent, duration, "ok"))

\* "Enable Guest Login" / "Disable Guest Login", lines 388-397
SetGuestLogin(s) ==
    LET swept == clear_old_messages(messages, now)
        c1 == get_app_state(cache, app_state, now)
        val == IF c1.app_state.val.guest_login_disabled = "true"
               THEN "false" ELSE "true"
    IN  /\ shows_admin_panel(session[s])
        /\ Commit(s, session[s], users, swept,
                  [app_state EXCEPT !.guest_login_disabled = val],
                  muted_users, c1,
                  Ev("set_guest_login", s, Absent, val, "ok"))

\* line 400
confirming(ss) == ss.confirm_delete_all_messages = "True"

\* "Clear All Messages", lines 411-412
AskClearAll(s) ==
    LET swept == clear_old_messages(messages, now)
        c1 == get_app_state(cache, app_state, now)
    IN  /\ shows_admin_panel(session[s])
        /\ ~confirming(session[s])
        /\ Commit(s, [session[s] EXCEPT !.confirm_delete_all_messages = "True"],
                  users, swept, app_state, muted_users, c1,
                  Ev("ask_clear_all", s, Absent, Absent, "ok"))

\* "Yes, Delete Everything", lines 403-407
ClearAllMessages(s) ==
    LET c1 == get_app_state(cache, app_state, now)
    IN  /\ shows_admin_panel(session[s])
        /\ confirming(session[s])
        /\ Commit(s, [session[s] EXCEPT !.confirm_delete_all_messages = "False"],
                  users, {}, app_state, muted_users, c1,
                  Ev("clear_all_messages", s, Absent, Absent, "ok"))

\* "Cancel", lines 408-409
CancelClearAll(s) ==
    LET swept == clear_old_messages(messages, now)
        c1 == get_app_state(cache, app_state, now)
    IN  /\ shows_admin_panel(session[s])
        /\ confirming(session[s])
        /\ Commit(s, [session[s] EXCEPT !.confirm_delete_all_messages = "False"],
                  users, swept, app_state, muted_users, c1,
                  Ev("cancel_clear_all", s, Absent, Absent, "ok"))

---------------------------------------------------------------------------
(* User management, lines 414-454: one block of buttons per row of the    *)
(* cached user list, with the cached list of muted usernames.              *)

\* line 422
is_muted(c, username) == username \in c.muted_list.val

\* the users the dashboard lists (line 421)
listed_users(c) == DOMAIN c.users_for_admin.val

\* line 441
is_account_row(c, username) == c.users_for_admin.val[username].role # "guest"

\* DELETE FROM muted_users WHERE username = :u
delete_mute(mu, username) == [u \in DOMAIN mu \ {username} |-> mu[u]]

\* the muted_users row that a handler finds for username (history)
found_mute(mu, username, end) ==
    IF username \notin DOMAIN mu THEN "none"
    ELSE IF mu[username] = end THEN "same" ELSE "other"

\* INSERT OR IGNORE: an existing row stays
upsert_mute_or_ignore(mu, username, end) ==
    [u \in DOMAIN mu \cup {username} |->
        IF u \in DOMAIN mu THEN mu[u] ELSE end]

\* INSERT OR REPLACE INTO muted_users (username, muted_until)
upsert_mute(mu, username, end) ==
    [u \in DOMAIN mu \cup {username} |-> IF u = username THEN end ELSE mu[u]]

\* UPDATE users SET status = :st WHERE username = :u
set_status(us, username, st) ==
    [u \in DOMAIN us |-> IF u = username THEN [us[u] EXCEPT !.status = st]
                         ELSE us[u]]

\* UPDATE users SET hashed_password = :hp WHERE username = :u
set_password(us, username, new_password) ==
    [u \in DOMAIN us |->
        IF u = username
        THEN [us[u] EXCEPT !.hashed_password = hash_password(new_password)]
        ELSE us[u]]

\* "Unmute", lines 428-431
UnmuteUser(s, username) ==
    LET swept == clear_old_messages(messages, now)
        c1 == dashboard_reads(cache, users, swept, app_state, muted_users, now)
    IN  /\ shows_admin_panel(session[s])
        /\ username \in listed_users(c1)
        /\ is_muted(c1, username)
        /\ Commit(s, session[s], users, swept, app_state,
                  delete_mute(muted_users, username), c1,
                  [Ev("unmute_user", s, username, Absent, "ok")
                      EXCEPT !.found = found_mute(muted_users, username, now)])

\* "Confirm Mute", lines 433-440
MuteUser(s, username, dur) ==
    LET swept == clear_old_messages(messages, now)
        c1 == dashboard_reads(cache, users, swept, app_state, muted_users, now)
        end == now + 60 * d_map[dur]
    IN  /\ shows_admin_panel(session[s])
        /\ username \in listed_users(c1)
        /\ ~is_muted(c1, username)
        /\ Commit(s, session[s], users, swept, app_state,
                  upsert_mute(muted_users, username, end), c1,
                  [Ev("mute_user", s, username, dur, "ok")
                      EXCEPT !.found = found_mute(muted_users, username, end)])

\* "Ban", lines 443-446
Ban(s, username) ==
    LET swept == clear_old_messages(messages, now)
        c1 == dashboard_reads(cache, users, swept, app_state, muted_users, now)
    IN  /\ shows_admin_panel(session[s])
        /\ username \in listed_users(c1)
        /\ is_account_row(c1, username)
        /\ c1.users_for_admin.val[username].status = "active"
        /\ Commit(s, session[s], set_status(users, username, "banned"), swept,
                  app_state, muted_users, c1,
                  Ev("ban", s, username, Absent, "ok"))

\* "Unban", lines 447-450
Unban(s, username) ==
    LET swept == clear_old_messages(messages, now)
        c1 == dashboard_reads(cache, users, swept, app_state, muted_users, now)
    IN  /\ shows_admin_panel(session[s])
        /\ username \in listed_users(c1)
        /\ is_account_row(c1, username)
        /\ c1.users_for_admin.val[username].status # "active"
        /\ Commit(s, session[s], set_status(users, username, "active"), swept,
                  app_state, muted_users, c1,
                  Ev("unban", s, username, Absent, "ok"))

---------------------------------------------------------------------------
(* show_change_password_form, lines 332-365 *)

\* a form without the minimum length of line 356
new_password_check_any_length(new_password, confirm_password) ==
    IF new_password # confirm_password THEN "mismatch" ELSE "ok"

\* lines 355-356: why the new password is refused, or "ok"
new_password_check(new_password, confirm_password) ==
    IF new_password # confirm_password THEN "mismatch"
    ELSE IF Len(new_password) < 6 THEN "too_short"
    ELSE "ok"

\* "Reset Pass" of a listed account, lines 451-453: the form with
\* is_admin_reset=True, which asks for no current password
ResetPassword(s, username, new_password, confirm_password) ==
    LET swept == clear_old_messages(messages, now)
        c1 == dashboard_reads(cache, users, swept, app_state, muted_users, now)
        res == new_password_check(new_password, confirm_password)
    IN  /\ shows_admin_panel(session[s])
        /\ username \in listed_users(c1)
        /\ is_account_row(c1, username)
        /\ Commit(s, session[s],
                  IF res = "ok" THEN set_password(users, username, new_password)
                  ELSE users,
                  swept, app_state, muted_users, c1,
                  Ev("reset_password", s, username, new_password, res))

\* line 333: a form that is not an admin reset serves the session's own
\* username only
authorized(ss, username_to_change, is_admin_reset) ==
    is_admin_reset \/ username_to_change = ss.username

\* "Change Your Password", lines 475-476 with 350-365: the form of the admin
\* panel for the session's own account
ChangeOwnPassword(s, current_password, new_password, confirm_password) ==
    LET swept == clear_old_messages(messages, now)
        c1 == dashboard_reads(cache, users, swept, app_state, muted_users, now)
        me == session[s].username
        res == IF me \notin DOMAIN users THEN "error"
               ELSE IF ~verify_password(users[me].hashed_password,
                                        current_password)
               THEN "wrong_current"
               ELSE new_password_check(new_password, confirm_password)
    IN  /\ shows_admin_panel(session[s])
        /\ authorized(session[s], me, FALSE)
        /\ Commit(s,
                  IF res = "ok" /\ session[s].admin_using_default_pass = "True"
                  THEN [session[s] EXCEPT !.admin_using_default_pass = "False"]
                  ELSE session[s],
                  IF res = "ok" THEN set_password(users, me, new_password)
                  ELSE users,
                  swept, app_state, muted_users, c1,
                  [Ev("change_password", s, me, new_password, res)
                      EXCEPT !.current = current_password])

---------------------------------------------------------------------------
(* The eligibility rule of lines 503-510 as a function of its inputs: the  *)
(* role, the stored chat_mute_until, the muted_users rows of the user and  *)
(* the time of the run.                                                    *)

ProbeRoles == {"admin", "user", "guest"}
ProbeTimes == {0, 299, 300, 301}
ProbeUntil == {Y2K, 0, 300, 3600}

InitEligibility ==
    /\ InitTables
    /\ probe \in {[NoProbe EXCEPT !.role = r, !.chat_mute_until = g,
                                  !.muted_until = i, !.at = t] :
                     r \in ProbeRoles, g \in ProbeUntil,
                     i \in {{}} \cup {{u} : u \in ProbeUntil}, t \in ProbeTimes}

Evaluate ==
    LET g == is_globally_muted([chat_mute_until |-> probe.chat_mute_until],
                               probe.at)
        i == is_individually_muted(probe.muted_until, probe.at)
    IN  /\ ~probe.evaluated
        /\ probe.role # Absent
        /\ probe' = [probe EXCEPT !.evaluated = TRUE,
                                  !.is_globally_muted = g,
                                  !.is_individually_muted = i,
                                  !.chat_disabled = chat_disabled(g, probe.role, i)]
        /\ UNCHANGED <<now, ticks, users, messages, app_state, muted_users,
                       cache, session, chat_input, event, last_post_at,
                       written_at, admin_ops, pending, issued_ids>>

NextEligibility == Evaluate

SpecEligibility == InitEligibility /\ [][NextEligibility]_vars

---------------------------------------------------------------------------
(* Specifications *)

\* The chat with the admin in one browser and a guest in the other:
\* posting, the global mute, the per-user mute, the clock.
AdminBrowser == "s1"
GuestBrowser == "s2"
SamGuest == "sam" \o GUEST_SUFFIX

NextChat ==
    \/ GoLogin(AdminBrowser)
    \/ Login(AdminBrowser, SUPER_ADMIN_USERNAME, SUPER_ADMIN_DEFAULT_PASS)
    \/ GoGuestSetup(GuestBrowser)
    \/ GuestJoin(GuestBrowser, "sam", "Latte")
    \/ \E s \in Sessions : Poll(s)
    \/ \E s \in Sessions : PostAttempt(s, "hello")
    \/ \E s \in Sessions : MuteChat(s, "m5")
    \/ \E s \in Sessions : LiftMute(s)
    \/ \E s \in Sessions : MuteUser(s, SamGuest, "m5")
    \/ \E s \in Sessions : UnmuteUser(s, SamGuest)
    \/ \E d \in {1, 5, 300} : Tick(d)

SpecChat == Init /\ [][NextChat]_vars

\* Two guests posting while the clock passes the retention window.
NextRetention ==
    \/ \E s \in Sessions : GoGuestSetup(s)
    \/ GuestJoin("s1", "sam", "Latte")
    \/ GuestJoin("s2", "bob", "Moon")
    \/ \E s \in Sessions : Poll(s)
    \/ \E s \in Sessions : PostAttempt(s, "hello")
    \/ \E d \in {1, 5, RETENTION_SECONDS} : Advance(d, MaxRetentionTicks)

SpecRetention == Init /\ [][NextRetention]_vars

\* st_autorefresh (line 458) makes the browser of every session on the chat
\* screen ask for a run every five seconds, so a poll that stays possible
\* takes place.
SpecRetentionFair ==
    /\ Init
    /\ [][NextRetention]_vars
    /\ WF_vars(\E s \in Sessions : Poll(s))

\* Two guests whose posts overlap: either evaluates its timestamp, and the
\* other may post, poll or let time pass before the row is inserted.
NextConcurrentPosts ==
    \/ \E s \in Sessions : GoGuestSetup(s)
    \/ GuestJoin("s1", "sam", "Latte")
    \/ GuestJoin("s2", "bob", "Moon")
    \/ \E s \in Sessions : Poll(s)
    \/ \E s \in Sessions : PostBegin(s, "hello")
    \/ \E s \in Sessions : PostCommit(s)
    \/ \E s \in Sessions : PostAnalyzerFails(s, "hello")
    \/ \E d \in {1, CACHE_TTL, RETENTION_SECONDS} :
          Advance(d, MaxRetentionTicks)

SpecConcurrentPosts == Init /\ [][NextConcurrentPosts]_vars

\* Posts, sweeps and the bulk clear of the admin side by side: the admin in
\* one browser and a guest in the other post in overlapping runs and poll
\* while messages expire, and the admin clears the chat.
NextSweepRace ==
    \/ GoLogin(AdminBrowser)
    \/ Login(AdminBrowser, SUPER_ADMIN_USERNAME, SUPER_ADMIN_DEFAULT_PASS)
    \/ GoGuestSetup(GuestBrowser)
    \/ GuestJoin(GuestBrowser, "sam", "Latte")
    \/ \E s \in Sessions : Poll(s)
    \/ \E s \in Sessions : PostBegin(s, "hello")
    \/ \E s \in Sessions : PostCommit(s)
    \/ AskClearAll(AdminBrowser)
    \/ ClearAllMessages(AdminBrowser)
    \/ \E d \in {1, RETENTION_SECONDS + CACHE_TTL} : Tick(d)

SpecSweepRace == Init /\ [][NextSweepRace]_vars

\* Registration and guest setup from two browsers, with names that differ
\* in case only and fields left empty.
NextRegistration ==
    \/ \E s \in Sessions : GoRegister(s)
    \/ \E s \in Sessions : GoGuestSetup(s)
    \/ \E s \in Sessions : BackToWelcome(s)
    \/ \E s \in Sessions, username \in RegisterNames \cup {Empty},
          password \in {"pw1", "secret2", Empty} :
          Register(s, username, password, "Latte")
    \/ \E s \in Sessions, username \in GuestNames \cup {Empty} :
          GuestJoin(s, username, "Moon")
    \/ \E s \in Sessions : Logout(s)

SpecRegistration == Init /\ [][NextRegistration]_vars

\* Identities: either browser registers bob or an account whose username
\* ends in the guest suffix, or joins as the guest bob or sam, in any order.
NextIdentities ==
    \/ \E s \in Sessions : GoRegister(s)
    \/ \E s \in Sessions : GoGuestSetup(s)
    \/ \E s \in Sessions : BackToWelcome(s)
    \/ \E s \in Sessions, username \in {"bob", "sam" \o GUEST_SUFFIX} :
          Register(s, username, "secret2", "Latte")
    \/ \E s \in Sessions, username \in GuestNames :
          GuestJoin(s, username, "Moon")

SpecIdentities == Init /\ [][NextIdentities]_vars

\* Sessions: the admin logs in and out in one browser with a right or a
\* wrong password, a guest joins and leaves in the other; both post and
\* poll, and the handlers of the admin panel are offered to both.
NextSessions ==
    \/ \E s \in Sessions : GoLogin(s)
    \/ \E s \in Sessions, password \in {SUPER_ADMIN_DEFAULT_PASS, "pw1"} :
          Login(s, SUPER_ADMIN_USERNAME, password)
    \/ GoGuestSetup(GuestBrowser)
    \/ \E username \in {"sam", Empty} : GuestJoin(GuestBrowser, username, "Latte")
    \/ \E s \in Sessions : BackToWelcome(s)
    \/ \E s \in Sessions : Poll(s)
    \/ \E s \in Sessions : PostAttempt(s, "hello")
    \/ \E s \in Sessions : SetGuestLogin(s)
    \/ \E s \in Sessions : AskClearAll(s)
    \/ \E s \in Sessions : ClearAllMessages(s)
    \/ \E s \in Sessions : Logout(s)

SpecSessions == Init /\ [][NextSessions]_vars

\* Login: the admin in one browser bans and unbans bob, who registers and
\* logs in from the other; either browser tries any of the names with a
\* right or a wrong password.
VisitorBrowser == "s2"

NextLogin ==
    \/ \E s \in Sessions : GoLogin(s)
    \/ GoRegister(VisitorBrowser)
    \/ Register(VisitorBrowser, "bob", "pw1", "Latte")
    \/ \E s \in Sessions, username \in LoginNames,
          password \in {"pw1", SUPER_ADMIN_DEFAULT_PASS} :
          Login(s, username, password)
    \/ \E s \in Sessions : Ban(s, "bob")
    \/ \E s \in Sessions : Unban(s, "bob")
    \/ \E s \in Sessions : Logout(s)
    \/ Tick(USERS_CACHE_TTL)

SpecLogin == Init /\ [][NextLogin]_vars

\* The admin panel: the admin in one browser; in the other a visitor who
\* registers as bob and logs in, or joins as the guest sam, and posts.
\* Every handler of the panel is offered to both browsers.
NextAdmin ==
    \/ GoLogin(AdminBrowser)
    \/ Login(AdminBrowser, SUPER_ADMIN_USERNAME, SUPER_ADMIN_DEFAULT_PASS)
    \/ GoRegister(VisitorBrowser)
    \/ Register(VisitorBrowser, "bob", "pw1", "Latte")
    \/ GoLogin(VisitorBrowser)
    \/ Login(VisitorBrowser, "bob", "pw1")
    \/ GoGuestSetup(VisitorBrowser)
    \/ GuestJoin(VisitorBrowser, "sam", "Moon")
    \/ PostAttempt(VisitorBrowser, "hello")
    \/ \E s \in Sessions : MuteChat(s, "h1")
    \/ \E s \in Sessions : LiftMute(s)
    \/ \E s \in Sessions : SetGuestLogin(s)
    \/ \E s \in Sessions : AskClearAll(s)
    \/ \E s \in Sessions : ClearAllMessages(s)
    \/ \E s \in Sessions : CancelClearAll(s)
    \/ \E s \in Sessions, u \in {"bob", SamGuest} : MuteUser(s, u, "h1")
    \/ \E s \in Sessions, u \in {"bob", SamGuest} : UnmuteUser(s, u)
    \/ \E s \in Sessions : Ban(s, "bob")
    \/ \E s \in Sessions : Unban(s, "bob")
    \/ \E s \in Sessions, new_password \in {"pw1", "secret2"},
          confirm_password \in {"pw1", "secret2"} :
          ResetPassword(s, "bob", new_password, confirm_password)
    \/ \E s \in Sessions :
          ChangeOwnPassword(s, SUPER_ADMIN_DEFAULT_PASS, "secret2", "secret2")
    \/ Tick(USERS_CACHE_TTL)

SpecAdmin == Init /\ [][NextAdmin]_vars

\* User management: two accounts register in one browser; the admin in the
\* other mutes and unmutes them for five minutes or an hour, and bans and
\* unbans whatever account the list shows.
ManagedNames == {"bob", "Bob"}

NextUserManagement ==
    \/ GoRegister(VisitorBrowser)
    \/ \E username \in ManagedNames :
          Register(VisitorBrowser, username, "secret2", "Latte")
    \/ BackToWelcome(VisitorBrowser)
    \/ GoLogin(AdminBrowser)
    \/ Login(AdminBrowser, SUPER_ADMIN_USERNAME, SUPER_ADMIN_DEFAULT_PASS)
    \/ \E s \in Sessions, u \in ManagedNames, dur \in {"m5", "h1"} :
          MuteUser(s, u, dur)
    \/ \E s \in Sessions, u \in ManagedNames : UnmuteUser(s, u)
    \/ \E s \in Sessions, u \in ManagedNames \cup {SUPER_ADMIN_USERNAME} :
          Ban(s, u)
    \/ \E s \in Sessions, u \in ManagedNames \cup {SUPER_ADMIN_USERNAME} :
          Unban(s, u)
    \/ \E d \in {1, USERS_CACHE_TTL, 300} : Tick(d)

SpecUserManagement == Init /\ [][NextUserManagement]_vars

\* Passwords: the admin in one browser resets bob's password and changes
\* its own; bob registers in the other browser; both log in and out.
PasswordInputs == {"pw1", "secret2", "longer12"}

NextPassword ==
    \/ \E s \in Sessions : GoLogin(s)
    \/ GoRegister(VisitorBrowser)
    \/ Register(VisitorBrowser, "bob", "secret2", "Latte")
    \/ \E password \in {SUPER_ADMIN_DEFAULT_PASS, "longer12"} :
          Login(AdminBrowser, SUPER_ADMIN_USERNAME, password)
    \/ \E password \in {"secret2", "longer12"} :
          Login(VisitorBrowser, "bob", password)
    \/ \E s \in Sessions, new_password \in PasswordInputs :
          \E confirm_password \in {new_password, "secret2"} :
              ResetPassword(s, "bob", new_password, confirm_password)
    \/ \E s \in Sessions,
          current_password \in {SUPER_ADMIN_DEFAULT_PASS, "secret2"},
          new_password \in {SUPER_ADMIN_DEFAULT_PASS, "pw1", "longer12"} :
          \E confirm_password \in {new_password, "secret2"} :
              ChangeOwnPassword(s, current_password, new_password,
                                confirm_password)
    \/ \E s \in Sessions : Logout(s)
    \/ Tick(USERS_CACHE_TTL)

SpecPassword == Init /\ [][NextPassword]_vars

---------------------------------------------------------------------------
(* Claims *)

\* the cooldown of the specified rate limiter; app.py has no counterpart
cooldown_seconds == 3

\* C1: for every role, global mute and individual mute, the eligibility a
\* run computes is NOT (global_muted AND role != admin) AND NOT
\* individually_muted; an individually muted admin is not allowed, and a
\* globally muted admin who is not individually muted is allowed.
C1_EligibilityTruthTable ==
    probe.evaluated =>
        LET allowed == ~probe.chat_disabled
            g == probe.is_globally_muted
            i == probe.is_individually_muted
        IN  /\ allowed <=> (~(g /\ probe.role # "admin") /\ ~i)
            /\ (probe.role = "admin" /\ g /\ i) => ~allowed
            /\ (probe.role = "admin" /\ g /\ ~i) => allowed

C1_Witness ==
    /\ probe.evaluated
    /\ probe.role = "admin"
    /\ probe.is_globally_muted
    /\ probe.is_individually_muted
    /\ probe.chat_disabled

\* the messages a step appends
Appended == messages' \ messages

\* C2 as stated: once mute_chat is committed, no message of a non-admin
\* session is appended at a time now < global_mute_until, and a post attempt
\* of an admin session that is not individually muted is appended.
C2_NoPostWhileGloballyMuted ==
    event.op = "post" =>
        LET ss == session[event.s]
        IN  /\ (ss.role # "admin" /\ now < app_state.chat_mute_until)
                   => event.result # "appended"
            /\ (ss.role = "admin" /\ ss.username \notin DOMAIN muted_users)
                   => event.result = "appended"

\* C2 amended: a non-admin session whose chat input was rendered by a run
\* at a time r with t0 + CACHE_TTL <= r < global_mute_until, t0 being the
\* time chat_mute_until was last written, appends nothing; an admin session
\* that is not individually muted appends.  (A session whose input was
\* rendered earlier, from the cached older app state, can still append.)
C2_NoPostOnceMuteIsRead ==
    [][event'.op = "post" =>
         LET s  == event'.s
             ss == session[s]
             r  == chat_input[s].at
         IN  /\ (/\ ss.role # "admin"
                 /\ written_at.chat_mute_until + CACHE_TTL <= r
                 /\ r < app_state.chat_mute_until)
                    => (event'.result = "rejected" /\ messages' = messages)
             /\ (ss.role = "admin" /\ ss.username \notin DOMAIN muted_users)
                    => (event'.result = "appended"
                        /\ \E m \in Appended : m.username = ss.username)
      ]_vars

C2_Witness ==
    /\ event.op = "post"
    /\ event.result = "rejected"
    /\ session[event.s].role # "admin"
    /\ written_at.chat_mute_until + CACHE_TTL <= chat_input[event.s].at
    /\ chat_input[event.s].at < app_state.chat_mute_until
    /\ \E m \in messages : m.username = SUPER_ADMIN_USERNAME
                           /\ m.timestamp > written_at.chat_mute_until

\* C3 as stated: after mute_user(u, duration) at t0, every post attempt of u
\* at now < t0 + duration is rejected, and one at now >= t0 + duration with
\* no global mute in force is appended, the expired row still stored.
C3_MutedUntilExpiry ==
    event.op = "post" =>
        LET ss == session[event.s]
            u  == ss.username
        IN  u \in DOMAIN muted_users =>
              /\ now < muted_users[u] => event.result = "rejected"
              /\ (/\ now >= muted_users[u]
                  /\ ~(ss.role # "admin" /\ now < app_state.chat_mute_until))
                     => event.result = "appended"

\* C3 amended: with t0 the time u's muted_users row was written and r the
\* time of the run that last rendered u's chat input, a post attempt of u
\* is rejected and appends nothing when t0 + CACHE_TTL <= r < muted_until,
\* and it appends exactly one message with author u when r >= muted_until,
\* the row still stored, and no global mute was in force for u at r nor
\* written within CACHE_TTL before r.
C3_MutedOnceReadUntilExpiry ==
    [][event'.op = "post" =>
         LET s  == event'.s
             ss == session[s]
             u  == ss.username
             r  == chat_input[s].at
         IN  u \in DOMAIN muted_users =>
               /\ (/\ written_at.muted_users[u] + CACHE_TTL <= r
                   /\ r < muted_users[u])
                      => (event'.result = "rejected" /\ messages' = messages)
               /\ (/\ r >= muted_users[u]
                   /\ \/ ss.role = "admin"
                      \/ /\ app_state.chat_mute_until <= r
                         /\ written_at.chat_mute_until + CACHE_TTL <= r)
                      => /\ event'.result = "appended"
                         /\ u \in DOMAIN muted_users'
                         /\ Cardinality(Appended) = 1
                         /\ \A m \in Appended : m.username = u
      ]_vars

C3_Witness ==
    /\ event.op = "post"
    /\ event.result = "appended"
    /\ session[event.s].username \in DOMAIN muted_users
    /\ muted_users[session[event.s].username] <= now
    /\ \E m \in messages : /\ m.username = session[event.s].username
                           /\ m.timestamp = now

\* C4 as stated: after the sweep of a poll cycle, a message is absent from
\* the list get_all_messages() returns to that cycle if and only if it is
\* older than the retention window.
C4_ListedIffWithinRetention ==
    event.op = "poll" =>
        \A m \in messages \cup cache.messages.val :
            m \notin cache.messages.val
                <=> now - m.timestamp > RETENTION_SECONDS

\* C4 amended: after the sweep of a poll cycle at time now, a message that
\* was in the messages table is absent from the table if and only if
\* now - created_at > 1 hour.  The list the cycle gets is a snapshot of the
\* swept table taken less than CACHE_TTL seconds before: every message in it
\* was at most one hour old when the snapshot was taken, and a stored
\* message is missing from it only if it was appended at or after the
\* snapshot.
C4_TableSweptListIsRecentSnapshot ==
    [][event'.op = "poll" =>
         LET listed == cache'.messages.val
             taken  == cache'.messages.at
         IN  /\ messages' \subseteq messages
             /\ \A m \in messages :
                    m \notin messages' <=> now - m.timestamp > RETENTION_SECONDS
             /\ cache'.messages.has
             /\ now - taken < CACHE_TTL
             /\ \A m \in listed : taken - m.timestamp <= RETENTION_SECONDS
             /\ \A m \in messages' : m \notin listed => m.timestamp >= taken
      ]_vars

C4_Witness ==
    /\ event.op = "poll"
    /\ \E m \in cache.messages.val :
           m \notin messages /\ now - m.timestamp > RETENTION_SECONDS

\* C5: of two post calls of one session less than cooldown_seconds apart,
\* the first is appended and the second is rejected and appends nothing,
\* whatever the message is.
C5_SecondPostWithinCooldownRejected ==
    [][event'.op = "post" =>
         LET s == event'.s
         IN  (\E t \in last_post_at[s] : now - t < cooldown_seconds)
                 => (event'.result = "rejected" /\ messages' = messages)
      ]_vars

\* C6: a post attempt either appends exactly one message row, with the
\* session's username and avatar, or is rejected and leaves the message,
\* moderation and account tables unchanged; the sweep that opens the run
\* removes expired rows only.
C6_PostAppendsOneRowOrNothing ==
    [][event'.op = "post" =>
         LET ss == session[event'.s]
         IN  /\ users' = users
             /\ app_state' = app_state
             /\ muted_users' = muted_users
             /\ \/ event'.result = "rejected" /\ messages' = messages
                \/ /\ event'.result = "appended"
                   /\ Cardinality(Appended) = 1
                   /\ \A m \in Appended : /\ m.username = ss.username
                                          /\ m.avatar = ss.avatar
                                          /\ m.timestamp = now
                                          /\ m.message = event'.arg
                   /\ \A m \in messages \ messages' :
                          now - m.timestamp > RETENTION_SECONDS
      ]_vars

C6_Witness ==
    /\ event.op = "post"
    /\ event.result = "appended"
    /\ Cardinality(messages) = 2
    /\ \E m \in messages : /\ m.timestamp = now
                           /\ m.username = session[event.s].username
                           /\ m.avatar = session[event.s].avatar
    /\ \E s \in Sessions : chat_input[s].state = "disabled"

---------------------------------------------------------------------------
(* Authorization, authentication, registration and guests *)

\* the handlers of the admin panel
AdminOps ==
    {"mute_chat", "unmute_chat", "set_guest_login", "mute_user",
     "unmute_user", "ban", "unban", "reset_password", "change_password",
     "ask_clear_all", "clear_all_messages", "cancel_clear_all"}

\* a step that writes the global mute timestamp, the guest-login flag, the
\* user-mute set, the status or the password of an account, or that
\* deletes a message the retention sweep would have kept
AdminWrite ==
    \/ app_state' # app_state
    \/ muted_users' # muted_users
    \/ \E u \in DOMAIN users \cap DOMAIN users' :
          \/ users'[u].status # users[u].status
          \/ users'[u].hashed_password # users[u].hashed_password
    \/ \E m \in messages \ messages' : m.timestamp >= cutoff_time(now)

\* C7: every step that runs a handler of the admin panel, and every step
\* that writes the global mute timestamp, the guest-login flag, the
\* user-mute set, an account's status or password, or bulk-deletes
\* messages, is taken by a session whose role is admin.
C7_AdminWritesOnlyByAdmin ==
    [][(AdminWrite \/ event'.op \in AdminOps) =>
          /\ event'.op \in AdminOps
          /\ event'.s \in Sessions
          /\ session[event'.s].role = "admin"
          /\ session'[event'.s].role = "admin"]_vars

\* the admin has just banned bob while the other browser is in the chat
\* as a user or a guest
C7_Witness ==
    /\ event.op = "ban"
    /\ session[event.s].role = "admin"
    /\ users["bob"].status = "banned"
    /\ \E s \in Sessions :
          session[s].screen = "chat" /\ session[s].role \in {"user", "guest"}

\* what the users table holds for the name and password of a login event
HashOk(u, p) ==
    u \in DOMAIN users /\ users[u].hashed_password = <<"sha256", p \o APP_SALT>>

\* C8: a login creates a logged-in session, with the account's username,
\* avatar and role, if and only if the account exists, the salted hash of
\* the password equals the stored hash and the status in the table at that
\* moment is active; an unknown user or a hash mismatch is answered
\* InvalidCredentials, a banned account Banned, and then the session stays
\* logged out.  The table is read at the call, so a ban or unban shows in
\* the very next login.
C8_LoginIffExistsHashActive ==
    event.op = "login" =>
        LET u == event.name
            p == event.arg
            ss == session[event.s]
        IN  /\ (ss.logged_in = "True") <=>
                   (HashOk(u, p) /\ users[u].status = "active")
            /\ (event.result = "ok") <=> (ss.logged_in = "True")
            /\ ss.logged_in = "True" =>
                   /\ ss.username = u
                   /\ ss.avatar = users[u].avatar
                   /\ ss.role = users[u].role
                   /\ ss.screen = "chat"
            /\ ~HashOk(u, p) => event.result = "InvalidCredentials"
            /\ (HashOk(u, p) /\ users[u].status = "banned") =>
                   event.result = "Banned"
            /\ event.result # "ok" =>
                   /\ ss.username = Absent
                   /\ ss.role = Absent
                   /\ ss.screen = "login"

\* bob gave the right password and was refused as banned
C8_Witness ==
    /\ event.op = "login"
    /\ event.result = "Banned"
    /\ HashOk(event.name, event.arg)
    /\ session[event.s].logged_in # "True"

\* what a register step does to the table when it is not refused
RegisterAdds(u, p) ==
    /\ event'.result = "ok"
    /\ DOMAIN users' = DOMAIN users \cup {u}
    /\ \A v \in DOMAIN users : users'[v] = users[v]
    /\ users'[u].role = "user"
    /\ users'[u].status = "active"
    /\ users'[u].hashed_password = <<"sha256", p \o APP_SALT>>
    /\ users'[u].avatar \in {AVATARS[l] : l \in AvatarLabels}

\* C9 as stated: register fails with DuplicateUsername when exactly that
\* username exists, leaving every account unchanged; otherwise it adds
\* exactly one account with role user, status active and the hash of
\* password + salt.
C9_RegisterDuplicateOrAdds ==
    [][event'.op = "register" =>
          IF event'.name \in DOMAIN users
          THEN event'.result = "DuplicateUsername" /\ users' = users
          ELSE RegisterAdds(event'.name, event'.arg)]_vars

\* C9: register with a non-empty username and a non-empty password fails
\* with DuplicateUsername when exactly that username (case-sensitive)
\* exists, leaving every account unchanged; otherwise it adds exactly one
\* account with role user, status active and the hash of password + salt.
\* With the username or the password empty it adds nothing.  Usernames are
\* the key of the table, so they stay unique.
C9_RegisterFilledInDuplicateOrAdds ==
    [][event'.op = "register" =>
          IF event'.name = Empty \/ event'.arg = Empty
          THEN event'.result = "MissingFields" /\ users' = users
          ELSE IF event'.name \in DOMAIN users
          THEN event'.result = "DuplicateUsername" /\ users' = users
          ELSE RegisterAdds(event'.name, event'.arg)]_vars

\* bob and Bob are both accounts, and a second registration of one of them
\* with another password was refused and left the first hash in place
C9_Witness ==
    /\ event.op = "register"
    /\ event.result = "DuplicateUsername"
    /\ {"bob", "Bob"} \subseteq DOMAIN users
    /\ users[event.name].hashed_password # <<"sha256", event.arg \o APP_SALT>>

\* what a guest_join step does when it is not refused
GuestEnters(s, name) ==
    /\ event'.result = "ok"
    /\ session'[s].logged_in = "True"
    /\ session'[s].username = name \o " (Guest)"
    /\ session'[s].role = "guest"

\* C10 as stated: guest_join fails with DuplicateUsername when the name is
\* the username of an account and leaves the session logged out; otherwise
\* it yields a session named "<name> (Guest)" with role guest; the users
\* table is never written.
C10_GuestJoinDuplicateOrEnters ==
    [][event'.op = "guest_join" =>
          /\ users' = users
          /\ IF event'.name \in DOMAIN users
             THEN /\ event'.result = "DuplicateUsername"
                  /\ session'[event'.s] = session[event'.s]
                  /\ session'[event'.s].logged_in # "True"
             ELSE GuestEnters(event'.s, event'.name)]_vars

\* C10: guest_join with a non-empty name fails with DuplicateUsername when
\* the name is the username of an account and leaves the session logged
\* out; otherwise it yields a session named "<name> (Guest)" with role
\* guest.  With an empty name it yields no session.  The users table is
\* never written.
C10_GuestJoinNamedDuplicateOrEnters ==
    [][event'.op = "guest_join" =>
          /\ users' = users
          /\ IF event'.name = Empty \/ event'.name \in DOMAIN users
             THEN /\ event'.result =
                        IF event'.name = Empty THEN "MissingName"
                        ELSE "DuplicateUsername"
                  /\ session'[event'.s] = session[event'.s]
                  /\ session'[event'.s].logged_in # "True"
             ELSE GuestEnters(event'.s, event'.name)]_vars

\* a guest asked for the name of the account bob and was refused, while the
\* other browser is in the chat as a guest
C10_Witness ==
    /\ event.op = "guest_join"
    /\ event.result = "DuplicateUsername"
    /\ event.name \in DOMAIN users
    /\ session[event.s].screen = "guest_setup"
    /\ \E s \in Sessions :
          session[s].role = "guest" /\ session[s].username = "sam (Guest)"

---------------------------------------------------------------------------
(* Passwords and moderation *)

\* every password typed into a form of the model
AllPasswords == PasswordInputs \cup Passwords \cup {SUPER_ADMIN_DEFAULT_PASS}

\* the stored hash of account u changes in this step
HashChanged(u) ==
    u \in DOMAIN users' /\ users'[u].hashed_password # users[u].hashed_password

\* a step of one of the two password forms
PasswordForm == event'.op \in {"change_password", "reset_password"}

\* the stored hash changes only through a form that is the account's own
\* session giving the current password, or an admin reset, with a new
\* password of at least 6 characters; a refused change writes nothing
C11_HashChangesOnlyAsAllowed ==
    /\ \A u \in DOMAIN users :
          HashChanged(u) =>
              /\ PasswordForm
              /\ event'.name = u
              /\ event'.result = "ok"
              /\ \/ /\ event'.op = "change_password"
                    /\ session[event'.s].username = u
                    /\ users[u].hashed_password =
                          <<"sha256", event'.current \o APP_SALT>>
                 \/ /\ event'.op = "reset_password"
                    /\ session[event'.s].role = "admin"
    /\ PasswordForm =>
          IF event'.result = "ok"
          THEN /\ Len(event'.arg) >= 6
               /\ users'[event'.name].hashed_password =
                     <<"sha256", event'.arg \o APP_SALT>>
          ELSE users' = users

\* C11 as stated: the hash changes only as allowed, a refused change
\* leaves it, and after a successful change the old password no longer
\* authenticates.
C11_ChangeRetiresOldPassword ==
    [][/\ C11_HashChangesOnlyAsAllowed
       /\ (PasswordForm /\ event'.result = "ok") =>
             \A p \in AllPasswords :
                 verify_password(users[event'.name].hashed_password, p) =>
                     ~verify_password(users'[event'.name].hashed_password, p)
      ]_vars

\* C11: the stored hash of account u changes only through change_password,
\* and only when the calling session is u itself and gave u's current
\* password, or the call is an admin reset; the new password has at least
\* 6 characters.  A refused change (wrong current password, mismatching
\* confirmation, length < 6) leaves the hash.  After a successful change
\* the old password no longer authenticates, unless the new password is
\* the old one.
C11_ChangeRetiresOldUnlessSame ==
    [][/\ C11_HashChangesOnlyAsAllowed
       /\ (PasswordForm /\ event'.result = "ok") =>
             \A p \in AllPasswords \ {event'.arg} :
                 verify_password(users[event'.name].hashed_password, p) =>
                     ~verify_password(users'[event'.name].hashed_password, p)
      ]_vars

\* the admin has changed its own password away from the default one, and
\* bob's password has been reset to another one
C11_Witness ==
    /\ event.op \in {"change_password", "reset_password"}
    /\ event.result = "ok"
    /\ ~verify_password(users[SUPER_ADMIN_USERNAME].hashed_password,
                        SUPER_ADMIN_DEFAULT_PASS)
    /\ "bob" \in DOMAIN users
    /\ ~verify_password(users["bob"].hashed_password, "secret2")

\* the eligibility that the tables give session s at time t
eligible(s, as, mu, t) ==
    ~chat_disabled(is_globally_muted(as, t), session[s].role,
                   is_individually_muted(
                       IF session[s].username \in DOMAIN mu
                       THEN {mu[session[s].username]} ELSE {}, t))

\* C12: unmute_chat writes a chat_mute_until strictly earlier than now and
\* keeps the key; when the stored chat_mute_until is in the past already,
\* it succeeds, leaves it in the past, and changes neither the eligibility
\* the tables give any session nor the chat input any browser shows.
C12_LiftWritesPastAndIsIdempotent ==
    [][event'.op = "unmute_chat" =>
          /\ event'.result = "ok"
          /\ DOMAIN app_state' = DOMAIN app_state
          /\ app_state'.chat_mute_until < now'
          /\ app_state'.chat_mute_until = now' - 60
          /\ app_state.chat_mute_until <= now =>
                /\ ~is_globally_muted(app_state', now')
                /\ \A s \in Sessions :
                      /\ session'[s].screen = "chat" =>
                            eligible(s, app_state', muted_users', now') =
                            eligible(s, app_state, muted_users, now)
                      /\ chat_input'[s].state = chat_input[s].state
      ]_vars

\* the admin lifted a mute that had been lifted already, with a guest in
\* the chat
C12_Witness ==
    /\ event.op = "unmute_chat"
    /\ event.found = "unmuted"
    /\ app_state.chat_mute_until < now
    /\ \E s \in Sessions :
          session[s].role = "guest" /\ session[s].screen = "chat"

\* the rows of muted_users other than username's are as they were
OtherMutesKept(username) ==
    \A v \in (DOMAIN muted_users \cup DOMAIN muted_users') \ {username} :
        /\ v \in DOMAIN muted_users
        /\ v \in DOMAIN muted_users'
        /\ muted_users'[v] = muted_users[v]

\* C13: mute_user(u, duration) at time t leaves one row for u with
\* muted_until = t + duration, whatever row u had before; unmute_user(u)
\* leaves no row for u; neither changes the row of another user.
C13_MuteUserIsUpsert ==
    [][/\ event'.op = "mute_user" =>
             /\ event'.name \in DOMAIN muted_users'
             /\ muted_users'[event'.name] = now' + 60 * d_map[event'.arg]
             /\ OtherMutesKept(event'.name)
       /\ event'.op = "unmute_user" =>
             /\ event'.name \notin DOMAIN muted_users'
             /\ OtherMutesKept(event'.name)
      ]_vars

\* the admin muted a user who had a row with another muted_until
C13_Witness ==
    /\ event.op = "mute_user"
    /\ event.found = "other"
    /\ muted_users[event.name] = now + 60 * d_map[event.arg]

---------------------------------------------------------------------------
(* Retention sweep, message order and ids *)

\* some run of the chat screen, hence a sweep, took place at the present
\* instant in browser s
SweptNow(s) == chat_input[s].state # "none" /\ chat_input[s].at = now

\* C14: the sweep of a poll cycle leaves what one sweep at that instant
\* leaves: sweeping its result again changes nothing, and a sweep at an
\* instant at which some session swept already finds nothing to delete,
\* leaves the table as it is and ends normally.
C14_SweepIdempotent ==
    [][event'.op = "poll" =>
          /\ event'.result = "ok"
          /\ messages' = clear_old_messages(messages, now)
          /\ clear_old_messages(messages', now') = messages'
          /\ (\E s \in Sessions : SweptNow(s)) => messages' = messages
      ]_vars

\* both browsers ran the chat screen at an instant at which a message had
\* expired, the later run as a poll: its sweep found the row deleted, while
\* the cached list still shows it
C14_Witness ==
    /\ event.op = "poll"
    /\ \A s \in Sessions : SweptNow(s)
    /\ \E m \in cache.messages.val : /\ m.timestamp < cutoff_time(now)
                                     /\ m \notin messages

\* the list of messages the chat shows from the cached query result
displayed == IF cache.messages.has
             THEN order_by_timestamp(cache.messages.val) ELSE << >>

\* C15: the list of messages that the chat shows is in ascending id order,
\* also after posts of several sessions that overlapped.
C15_ListInIdOrder ==
    \A i, j \in 1..Len(displayed) : i < j => displayed[i].id < displayed[j].id

\* C16: a post attempt in which the sentiment analyzer fails still appends
\* the message, with sentiment 0.
C16_AnalyzerFailureStillAppends ==
    [][event'.op = "post" /\ event'.result = "analyzer_error" =>
          \E m \in Appended : /\ m.username = event'.name
                              /\ m.message = event'.arg
                              /\ m.sentiment = 0
      ]_vars

\* C17: the id of a newly appended message is greater than the id of every
\* message appended before it, deleted ones included.
C17_IdsNeverReused ==
    [][event'.op = "post" /\ event'.result = "appended" =>
          \A m \in Appended : \A i \in issued_ids : m.id > i
      ]_vars

\* a stored message is older than the retention window
ExpiredStored == \E m \in messages : now - m.timestamp > RETENTION_SECONDS

\* C18: while the browsers on the chat screen keep polling, a stored message
\* older than one hour is eventually deleted, and no such message is left
\* in the table by a poll cycle, the first after its expiry included; no
\* admin takes part.
C18_ExpiredEventuallySwept ==
    /\ [][event'.op = "poll" =>
             \A m \in messages' : ~(now' - m.timestamp > RETENTION_SECONDS)
         ]_vars
    /\ ExpiredStored ~> ~ExpiredStored

\* a poll has run with every appended message deleted, one of them still
\* in the cached list and older than an hour
C18_Witness ==
    /\ event.op = "poll"
    /\ issued_ids # {}
    /\ messages = {}
    /\ \A s \in Sessions : session[s].role # "admin"
    /\ \E m \in cache.messages.val : now - m.timestamp > RETENTION_SECONDS

\* the post that the step completes, as its session began it
Committed == CHOOSE p \in pending[event'.s] : TRUE

\* C19: whatever the interleaving of the sessions' posts and sweeps, a
\* message leaves the table only in a step at whose time it is older than
\* the retention window, or by the admin's "Yes, Delete Everything"; and a
\* completed post adds its row to the rows that are there, unless the row
\* is older than the window already.
C19_OnlyExpiredOrClearedLeave ==
    [][/\ \A m \in messages \ messages' :
             \/ now' - m.timestamp > RETENTION_SECONDS
             \/ event'.op = "clear_all_messages"
       /\ event'.op = "post" /\ event'.result = "appended" =>
             \/ now' - Committed.ts > RETENTION_SECONDS
             \/ /\ Cardinality(Appended) = 1
                /\ \A m \in Appended : /\ m.timestamp = Committed.ts
                                       /\ m.username = event'.name
                                       /\ m.message = Committed.prompt
                                       /\ m.id \notin {x.id : x \in messages}
      ]_vars

\* a post that began before another session's post was inserted after it,
\* and both rows are stored
C19_Witness ==
    /\ event.op = "post"
    /\ \E m1, m2 \in messages : /\ m1.username = event.name
                                /\ m2.username # event.name
                                /\ m1.id > m2.id
                                /\ m1.timestamp < m2.timestamp

---------------------------------------------------------------------------
(* Account status *)

\* C20: the admin account keeps status active and role admin whatever is
\* banned or unbanned; a ban or unban is the act of a session other than
\* the account it names, sets the status of that account, and leaves the
\* role, avatar and hash of that account and every other account as they
\* were.
C20_BanChangesOnlyOtherAccount ==
    [][/\ users'[SUPER_ADMIN_USERNAME].status = "active"
       /\ users'[SUPER_ADMIN_USERNAME].role = "admin"
       /\ event'.op \in {"ban", "unban"} =>
             /\ session[event'.s].role = "admin"
             /\ event'.name # session[event'.s].username
             /\ event'.name \in DOMAIN users
             /\ users' = [users EXCEPT ![event'.name].status =
                              IF event'.op = "ban" THEN "banned" ELSE "active"]
      ]_vars

\* the admin banned one of two registered accounts; the other one and the
\* admin are active
C20_Witness ==
    /\ event.op = "ban"
    /\ ManagedNames \subseteq DOMAIN users
    /\ users[event.name].status = "banned"
    /\ \E v \in ManagedNames : v # event.name /\ users[v].status = "active"
    /\ users[SUPER_ADMIN_USERNAME].status = "active"

---------------------------------------------------------------------------
(* Bans, guest login, identities and sessions *)

\* C21: no message is appended with an author whose account has status
\* banned at that time, also when the ban came while the account's session
\* was on the chat screen.
C21_BannedCannotPost ==
    [][event'.op = "post" /\ event'.result = "appended" =>
          \A m \in Appended :
              m.username \in DOMAIN users' =>
                  users'[m.username].status # "banned"
      ]_vars

\* C22: no guest session is created while the stored guest_login_disabled
\* is true, also for a browser that reached the guest-setup screen before
\* the admin set the flag.
C22_NoGuestJoinWhileDisabled ==
    [][event'.op = "guest_join" /\ event'.result = "ok" =>
          app_state.guest_login_disabled # "true"
      ]_vars

\* the name a guest session chose: its username without the suffix of
\* line 323
display_name(username) ==
    SubSeq(username, 1, Len(username) - Len(GUEST_SUFFIX))

\* C23: no guest session on the chat screen has a username that is the
\* username of an account, or chose a name that is.
C23_GuestNamesNotAccounts ==
    \A s \in Sessions :
        session[s].role = "guest" =>
            /\ session[s].username \notin DOMAIN users
            /\ display_name(session[s].username) \notin DOMAIN users

\* session s has the keys that a login or a guest join sets
HasIdentity(ss) ==
    /\ ss.logged_in = "True"
    /\ ss.username # Absent
    /\ ss.avatar # Absent
    /\ ss.role \in {"admin", "user", "guest"}

\* C24: a session on the chat screen has the identity that a successful
\* login or guest join gave it, and reaches the chat screen by one of these
\* only; a message is appended under the username of the posting session;
\* a logout leaves the session on the welcome screen with no key set, and a
\* session without a role neither posts nor runs a handler of the admin
\* panel.
C24_ChatScreenOnlyWithIdentity ==
    /\ [](\A s \in Sessions : session[s].screen = "chat" =>
                                  HasIdentity(session[s]))
    /\ [][/\ \A s \in Sessions :
                (session'[s].screen = "chat" /\ session[s].screen # "chat") =>
                    /\ event'.op \in {"login", "guest_join"}
                    /\ event'.result = "ok"
                    /\ event'.s = s
          /\ event'.op = "post" =>
                /\ HasIdentity(session[event'.s])
                /\ \A m \in Appended : m.username = session[event'.s].username
          /\ event'.op \in AdminOps => session[event'.s].role = "admin"
          /\ event'.op = "logout" =>
                /\ session'[event'.s].screen = "welcome"
                /\ session'[event'.s].logged_in = Absent
                /\ session'[event'.s].username = Absent
                /\ session'[event'.s].avatar = Absent
                /\ session'[event'.s].role = Absent
                /\ session'[event'.s].admin_using_default_pass = Absent
                /\ session'[event'.s].confirm_delete_all_messages = Absent
         ]_vars

\* the admin posted, ran a handler of the panel and logged out: the session
\* has no key left, and the message is stored
C24_Witness ==
    /\ event.op = "logout"
    /\ event.name = SUPER_ADMIN_USERNAME
    /\ session[event.s] = NewSession
    /\ admin_ops > 0
    /\ \E m \in messages : m.username = event.name

=============================================================================
